---------------------------- MODULE Spec2Model ----------------------------
(***************************************************************************)
(* A model of the reinforcement-learning agents (python_backend/models)    *)
(* and of the checkpoint manager (python_backend/utils/checkpoint.py).     *)
(*                                                                         *)
(* Python values are modelled as follows.  An optional value (None, or a   *)
(* dictionary key that may be missing) is the empty sequence << >> when    *)
(* absent and the one-element sequence << x >> when present.  A string     *)
(* that the code compares or sorts is a sequence of character codes.  A    *)
(* float that the code multiplies repeatedly (epsilon) is an exact         *)
(* fraction << numerator, denominator >>.                                  *)
(***************************************************************************)
EXTENDS Integers, Sequences, FiniteSets, TLC

VARIABLES
    buffer,     \* ReplayBuffer.buffer: the deque of stored transitions
    pushed,     \* history: every transition ever pushed, oldest first
    files,      \* the checkpoint directory: path -> << >> or << content >>
    clock,      \* the wall clock read by datetime.now(), in ticks
    ledger,     \* history: per name, its last completed save (with the
                \* snapshot that save overwrote, if any) or delete
    kind,       \* the class of the agent under test
    agent,      \* the agent's fields
    restored,   \* << >>, or << the agent rebuilt from agent's state_dict >>
    ret,        \* the return value of the most recent call
    calls       \* per session, the checkpoint manager call it is inside of

vars == << buffer, pushed, files, clock, ledger, kind, agent, restored, ret,
           calls >>

\* The variables of the agents, which the other components leave alone.
agentVars == << kind, agent, restored >>

\* The variables of the replay buffer under test and of the checkpoint store.
storeVars == << buffer, pushed, files, clock, ledger, calls >>

\* The sessions that use one checkpoint directory.
Sessions == { "s1", "s2" }

\* No session is inside a call.
NoCalls == [s \in Sessions |-> [pc |-> "idle"]]

Min(a, b) == IF a < b THEN a ELSE b

Max(a, b) == IF a < b THEN b ELSE a

None == << >>

Some(x) == << x >>

(***************************************************************************)
(* ReplayBuffer (models/dqn.py)                                            *)
(***************************************************************************)

\* Capacity of the replay buffer under test (buffer_size, at least 1).
Capacity == 2

\* Number of distinct transitions the environment can produce.
NumTransitions == 3

\* Number of pushes explored.
MaxPushes == 4

Transitions == 1 .. NumTransitions

\* deque(maxlen=capacity).append(x) when the deque is full and x is appended
\* without discarding anything (the behaviour of an unbounded list).
DequeAppendUnbounded(dq, maxlen, x) == Append(dq, x)

\* deque(maxlen=capacity).append(x): when the deque already holds maxlen
\* items, the item at the opposite (left) end is discarded.
DequeAppend(dq, maxlen, x) ==
    IF maxlen = 0 THEN dq
    ELSE IF Len(dq) >= maxlen THEN Append(Tail(dq), x)
    ELSE Append(dq, x)

\* ReplayBuffer.push
Push(buf, capacity, transition) == DequeAppend(buf, capacity, transition)

\* ReplayBuffer.__len__
BufLen(buf) == Len(buf)

ReplayInit ==
    /\ buffer = << >>
    /\ pushed = << >>
    /\ files = << >>
    /\ clock = 0
    /\ ledger = << >>
    /\ kind = "none"
    /\ agent = << >>
    /\ restored = << >>
    /\ ret = [op |-> "init"]
    /\ calls = NoCalls

ReplayPush(t) ==
    /\ Len(pushed) < MaxPushes
    /\ buffer' = Push(buffer, Capacity, t)
    /\ pushed' = Append(pushed, t)
    /\ ret' = [op |-> "push"]
    /\ UNCHANGED << files, clock, ledger, calls, agentVars >>

ReplayLen ==
    /\ ret' = [op |-> "len", value |-> BufLen(buffer)]
    /\ UNCHANGED << buffer, pushed, files, clock, ledger, calls, agentVars >>

ReplayNext ==
    \/ \E t \in Transitions : ReplayPush(t)
    \/ ReplayLen

SpecReplay == ReplayInit /\ [][ReplayNext]_vars

\* The last n elements of a sequence.
LastN(s, n) == SubSeq(s, Len(s) - n + 1, Len(s))

\* C2: after any sequence of pushes the buffer holds at most Capacity
\* transitions, and exactly the most recent min(n, Capacity) of the n pushed
\* ones in insertion order; __len__ reports that length.  After more than
\* Capacity pushes the oldest push is therefore gone and the newest present.
C2_ReplayFifo ==
    /\ Len(buffer) <= Capacity
    /\ buffer = LastN(pushed, Min(Len(pushed), Capacity))
    /\ (ret.op = "len" => ret.value = Min(Len(pushed), Capacity))

\* C2 witness: Capacity + 1 distinct-position pushes have happened, the first
\* pushed transition was evicted and the last pushed one is at the tail.
C2_Witness ==
    /\ Len(pushed) = Capacity + 1
    /\ pushed[1] # pushed[2]
    /\ buffer[1] = pushed[2]
    /\ buffer[Len(buffer)] = pushed[Len(pushed)]
    /\ \A i \in 1 .. Len(buffer) : buffer[i] # pushed[1]

(***************************************************************************)
(* CheckpointManager (utils/checkpoint.py)                                 *)
(***************************************************************************)

\* Checkpoint names used by the callers; a name or a path is a sequence of
\* string pieces, and concatenating strings is concatenating sequences.
Names == { << "m" >>, << "n" >> }

\* Last tick of the wall clock explored.
MaxClock == 4

\* Largest time, in ticks, that passes between two reads of the clock.
MaxTick == 2

\* Clock ticks per second (the clock's sub-second resolution).
TicksPerSecond == 2

\* The snapshots the callers pass to save(): a dictionary with a model state
\* and optional 'episode' and 'reward' keys.
Snapshots ==
    { [model_state |-> "w0", episode |-> None, reward |-> None],
      [model_state |-> "w1", episode |-> Some(1), reward |-> Some(0)],
      [model_state |-> "w2", episode |-> Some(2), reward |-> Some(1)] }

\* The metadata argument of save(): None, an empty dictionary, or a
\* dictionary, given as its set of << key, value >> items.
MetadataArgs == { None, Some({}), Some({<< "loss", 1 >>}) }

\* checkpoint_dir / f"{name}.pt"
PtPath(name) == name \o << ".pt" >>

\* checkpoint_dir / f"{name}_metadata.json"
MetadataPath(name) == name \o << "_metadata.json" >>

Paths == { PtPath(n) : n \in Names } \cup { MetadataPath(n) : n \in Names }

\* Path.exists() / os.path.isfile() on a path of the checkpoint directory.
Exists(fs, path) == fs[path] # None

\* The two decimal digits of a zero-padded field, as character codes.
Digits2(n) == << 48 + ((n \div 10) % 10), 48 + (n % 10) >>

\* datetime.isoformat(): the seconds field, then "." and the zero-padded
\* sub-second field, which is left out when it is zero.
IsoFormat(t) ==
    Digits2(t \div TicksPerSecond)
        \o (IF t % TicksPerSecond = 0
            THEN << >>
            ELSE << 46 >> \o Digits2(t % TicksPerSecond))

\* Python's str < str: lexicographic on character codes, a proper prefix
\* being smaller.
RECURSIVE StrLess(_, _)
StrLess(a, b) ==
    IF a = << >> THEN b # << >>
    ELSE IF b = << >> THEN FALSE
    ELSE IF Head(a) # Head(b) THEN Head(a) < Head(b)
    ELSE StrLess(Tail(a), Tail(b))

\* Python truthiness of the metadata argument: None and {} are falsy.
Truthy(metadata) == metadata # None /\ metadata[1] # {}

\* dict.get(key, default) on an optional key.
GetOr(opt, default) == IF opt = None THEN default ELSE opt[1]

\* The dictionary torch.save() writes: the caller's snapshot with the
\* 'metadata' key set when a truthy metadata was given, and 'timestamp'.
CheckpointDict(snap, metadata, now) ==
    [ model_state |-> snap.model_state,
      episode     |-> snap.episode,
      reward      |-> snap.reward,
      metadata    |-> IF Truthy(metadata) THEN metadata ELSE None,
      timestamp   |-> IsoFormat(now) ]

\* The JSON sidecar json.dump() writes.
Sidecar(name, ckpt) ==
    [ name      |-> name,
      timestamp |-> ckpt.timestamp,
      metadata  |-> GetOr(ckpt.metadata, {}),
      episode   |-> GetOr(ckpt.episode, 0),
      reward    |-> GetOr(ckpt.reward, 0) ]

\* What a file holds after a write that failed part-way, or was cut short:
\* torch.load and json.load raise on it.
Corrupt == [corrupt |-> TRUE]

\* Whether torch.load / json.load can read what a file holds.
Readable(content) == "corrupt" \notin DOMAIN content

\* A save that writes the snapshot file but no metadata sidecar.
SaveFilesNoSidecar(fs, name, snap, metadata, now) ==
    [fs EXCEPT ![PtPath(name)] = Some(CheckpointDict(snap, metadata, now))]

\* A save that drops the optional keys of the snapshot it writes.
SaveFilesDropKeys(fs, name, snap, metadata, now) ==
    LET ckpt == CheckpointDict(snap, metadata, now)
    IN  [fs EXCEPT
            ![PtPath(name)] = Some([ckpt EXCEPT !.episode = None,
                                                !.reward = None]),
            ![MetadataPath(name)] = Some(Sidecar(name, ckpt))]

\* CheckpointManager.save: the files after a save that did not fail.
SaveFiles(fs, name, snap, metadata, now) ==
    LET ckpt == CheckpointDict(snap, metadata, now)
    IN  [fs EXCEPT ![PtPath(name)] = Some(ckpt),
                   ![MetadataPath(name)] = Some(Sidecar(name, ckpt))]

\* The arguments load() is called with: a bare name, or a location that
\* save() returned.
LoadArgs == Names \cup { PtPath(n) : n \in Names }

\* A load that never finds the snapshot.
LoadResultNeverFound(fs, arg) == None

\* The try block of CheckpointManager.load: the file at arg when arg is a
\* file, else the snapshot file of the name arg; None when that file does
\* not exist; torch.load raises on a file it cannot read.
LoadTry(fs, arg) ==
    LET checkpoint_path ==
            IF arg \in Paths /\ Exists(fs, arg) THEN arg ELSE PtPath(arg)
    IN  IF ~ (checkpoint_path \in Paths /\ Exists(fs, checkpoint_path))
        THEN [raised |-> FALSE, value |-> None]
        ELSE IF ~ Readable(fs[checkpoint_path][1])
        THEN [raised |-> TRUE, value |-> None]
        ELSE [raised |-> FALSE, value |-> fs[checkpoint_path]]

\* An except block that raises again, as the one of save does.
LoadExceptRaise(outcome) == outcome

\* The except block of CheckpointManager.load: return None.
LoadExcept(outcome) ==
    IF outcome.raised THEN [raised |-> FALSE, value |-> None] ELSE outcome

\* CheckpointManager.load: what the call returns.
LoadResult(fs, arg) == LoadExcept(LoadTry(fs, arg)).value

\* CheckpointManager.load: whether the call raises.
LoadRaised(fs, arg) == LoadExcept(LoadTry(fs, arg)).raised

\* A delete that unlinks the snapshot file and leaves the sidecar.
DeleteFilesKeepSidecar(fs, name) == [fs EXCEPT ![PtPath(name)] = None]

\* A delete that leaves the snapshot file and unlinks the sidecar.
DeleteFilesKeepSnapshot(fs, name) == [fs EXCEPT ![MetadataPath(name)] = None]

\* CheckpointManager.delete: both files unlinked.
DeleteFiles(fs, name) ==
    [fs EXCEPT ![PtPath(name)] = None, ![MetadataPath(name)] = None]

\* CheckpointManager.delete: whether anything was removed.
DeleteResult(fs, name) ==
    Exists(fs, PtPath(name)) \/ Exists(fs, MetadataPath(name))

\* A sort that puts the oldest record first.
RECURSIVE InsertAscending(_, _)
InsertAscending(sorted, x) ==
    IF sorted = << >> THEN << x >>
    ELSE IF StrLess(x.timestamp, Head(sorted).timestamp)
         THEN << x >> \o sorted
         ELSE << Head(sorted) >> \o InsertAscending(Tail(sorted), x)

\* list.sort(key=timestamp, reverse=True) is stable: x goes after every
\* record whose timestamp is not smaller than its own.
RECURSIVE InsertDescending(_, _)
InsertDescending(sorted, x) ==
    IF sorted = << >> THEN << x >>
    ELSE IF StrLess(Head(sorted).timestamp, x.timestamp)
         THEN << x >> \o sorted
         ELSE << Head(sorted) >> \o InsertDescending(Tail(sorted), x)

RECURSIVE SortByTimestamp(_)
SortByTimestamp(records) ==
    IF records = << >> THEN << >>
    ELSE InsertDescending(SortByTimestamp(SubSeq(records, 1, Len(records) - 1)),
                          records[Len(records)])

\* The orders in which glob() may yield the files of a set.
Orders(S) ==
    { f \in [1 .. Cardinality(S) -> S] :
        \A i, j \in 1 .. Cardinality(S) : i # j => f[i] # f[j] }

\* The names whose metadata sidecar exists: glob("*_metadata.json").
Globbed(fs) == { n \in Names : Exists(fs, MetadataPath(n)) }

\* CheckpointManager.list_checkpoints, the glob yielding the names in
\* `order`: a sidecar json.load cannot read is skipped.
ListResult(fs, order) ==
    SortByTimestamp(
        SelectSeq([i \in 1 .. Len(order) |-> fs[MetadataPath(order[i])][1]],
                  Readable))

\* The metrics get_best is asked for: the default, and one that only a
\* metadata argument carries.
Metrics == { "reward", "loss" }

\* The keys of a listed record.
RecordKeys == { "name", "timestamp", "metadata", "episode", "reward" }

\* `key in metadata` for a metadata dictionary, held as a set of pairs.
HasKey(md, key) == \E p \in md : p[1] = key

\* metadata.get(key, default).
DictGet(md, key, default) ==
    IF HasKey(md, key) THEN (CHOOSE p \in md : p[1] = key)[2] ELSE default

\* The filter of get_best: metric in c.get('metadata', {}) or metric in c.
HasMetric(c, metric) == HasKey(c.metadata, metric) \/ metric \in RecordKeys

\* The sort key of get_best:
\* x.get('metadata', {}).get(metric, x.get(metric, 0)).
MetricKey(c, metric) ==
    DictGet(c.metadata, metric, IF metric = "reward" THEN c.reward ELSE 0)

\* list.sort(key, reverse=maximize) is stable in both directions: x goes
\* after every record that does not come strictly after it.
RECURSIVE InsertByMetric(_, _, _, _)
InsertByMetric(sorted, x, metric, maximize) ==
    IF sorted = << >> THEN << x >>
    ELSE IF ( IF maximize
              THEN MetricKey(Head(sorted), metric) < MetricKey(x, metric)
              ELSE MetricKey(x, metric) < MetricKey(Head(sorted), metric) )
         THEN << x >> \o sorted
         ELSE << Head(sorted) >>
                  \o InsertByMetric(Tail(sorted), x, metric, maximize)

RECURSIVE SortByMetric(_, _, _)
SortByMetric(records, metric, maximize) ==
    IF records = << >> THEN << >>
    ELSE InsertByMetric(
             SortByMetric(SubSeq(records, 1, Len(records) - 1), metric, maximize),
             records[Len(records)], metric, maximize)

\* CheckpointManager.get_best, the glob yielding the names in `order`.
GetBestResult(fs, order, metric, maximize) ==
    LET checkpoints == ListResult(fs, order)
        valid_checkpoints ==
            SelectSeq(checkpoints, LAMBDA c : HasMetric(c, metric))
    IN  IF checkpoints = << >> THEN None
        ELSE IF valid_checkpoints = << >> THEN None
        ELSE Some(SortByMetric(valid_checkpoints, metric, maximize)[1].name)

CkptInit ==
    /\ buffer = << >>
    /\ pushed = << >>
    /\ files = [p \in Paths |-> None]
    /\ clock = 0
    /\ ledger = [n \in Names |-> [state |-> "never"]]
    /\ kind = "none"
    /\ agent = << >>
    /\ restored = << >>
    /\ ret = [op |-> "init"]
    /\ calls = NoCalls

\* save(name, snap, metadata); d ticks have passed since the clock was read.
Save(name, snap, metadata, d) ==
    /\ clock + d <= MaxClock
    /\ clock' = clock + d
    /\ files' = SaveFiles(files, name, snap, metadata, clock')
    /\ ledger' = [ledger EXCEPT ![name] =
                    [state    |-> "saved",
                     snap     |-> snap,
                     metadata |-> metadata,
                     at       |-> clock',
                     before   |-> IF @.state = "saved" THEN Some(@.snap)
                                  ELSE None]]
    /\ ret' = [op |-> "save", name |-> name, raised |-> FALSE,
               value |-> Some(PtPath(name))]
    /\ UNCHANGED << buffer, pushed, calls, agentVars >>

Load(arg) ==
    /\ ret' = [op |-> "load", arg |-> arg,
               raised |-> LoadRaised(files, arg),
               value |-> LoadResult(files, arg)]
    /\ UNCHANGED << buffer, pushed, files, clock, ledger, calls, agentVars >>

ListCheckpoints(order) ==
    /\ ret' = [op |-> "list", value |-> ListResult(files, order)]
    /\ UNCHANGED << buffer, pushed, files, clock, ledger, calls, agentVars >>

Delete(name) ==
    /\ files' = DeleteFiles(files, name)
    /\ ledger' = [ledger EXCEPT ![name] =
                    IF DeleteResult(files, name)
                    THEN [state |-> "deleted"]
                    ELSE @]
    /\ ret' = [op |-> "delete", name |-> name,
               value |-> DeleteResult(files, name)]
    /\ UNCHANGED << buffer, pushed, clock, calls, agentVars >>

\* get_best(metric, maximize): reads the sidecar files, changes nothing.
GetBest(order, metric, maximize) ==
    /\ ret' = [op |-> "get_best", metric |-> metric, maximize |-> maximize,
               value |-> GetBestResult(files, order, metric, maximize)]
    /\ UNCHANGED << buffer, pushed, files, clock, ledger, calls, agentVars >>

CkptNext ==
    \/ \E n \in Names, s \in Snapshots, md \in MetadataArgs, d \in 1 .. MaxTick :
           Save(n, s, md, d)
    \/ \E a \in LoadArgs : Load(a)
    \/ \E o \in Orders(Globbed(files)) : ListCheckpoints(o)
    \/ \E n \in Names : Delete(n)
    \/ \E o \in Orders(Globbed(files)), metric \in Metrics, maximize \in BOOLEAN :
           GetBest(o, metric, maximize)

SpecCkpt == CkptInit /\ [][CkptNext]_vars

\* The name a load argument refers to.
NameOf(arg) == << arg[1] >>

\* The steps of save() that do I/O: torch.save, then the sidecar's open and
\* json.dump.
SaveSteps == { "snapshot", "sidecar" }

\* The files after a save whose `step` raised; `partial` tells whether the
\* failing write had already replaced the file's content.  The steps before
\* the failing one are done, the steps after it are not.
FailedSaveFiles(fs, name, snap, metadata, now, step, partial) ==
    LET ckpt == CheckpointDict(snap, metadata, now)
    IN  IF step = "snapshot" THEN
            [fs EXCEPT ![PtPath(name)] = IF partial THEN Some(Corrupt) ELSE @]
        ELSE
            [fs EXCEPT ![PtPath(name)] = Some(ckpt),
                       ![MetadataPath(name)] =
                           IF partial THEN Some(Corrupt) ELSE @]

\* save(name, snap, metadata) with an I/O error at `step`: the except block
\* logs and raises again.
SaveFails(name, snap, metadata, d, step, partial) ==
    /\ clock + d <= MaxClock
    /\ clock' = clock + d
    /\ files' = FailedSaveFiles(files, name, snap, metadata, clock', step, partial)
    /\ ledger' = [ledger EXCEPT ![name] = [state |-> "failed"]]
    /\ ret' = [op |-> "save", name |-> name, raised |-> TRUE, value |-> None]
    /\ UNCHANGED << buffer, pushed, calls, agentVars >>

FaultsNext ==
    \/ \E n \in Names, s \in Snapshots : Save(n, s, None, 1)
    \/ \E arg \in LoadArgs : Load(arg)
    \/ \E o \in Orders(Globbed(files)) : ListCheckpoints(o)
    \/ \E n \in Names : Delete(n)
    \/ \E n \in Names, s \in Snapshots, step \in SaveSteps, partial \in BOOLEAN :
           SaveFails(n, s, None, 1, step, partial)

\* The checkpoint manager on a file system whose writes can fail.
SpecCkptFaults == CkptInit /\ [][FaultsNext]_vars

\* The record list_checkpoints gives for a name, if any.
ListedRecord(fs, name) ==
    IF Exists(fs, MetadataPath(name)) /\ Readable(fs[MetadataPath(name)][1])
    THEN fs[MetadataPath(name)]
    ELSE None

\* The names that were saved and not deleted since.
Live == { n \in Names : ledger[n].state = "saved" }

\* C8: a load of a name that was saved and not deleted since returns a
\* snapshot, and its model state, episode and reward are those of the
\* snapshot given to the most recent save of that name.
C8_SaveLoadRoundTrip ==
    (ret.op = "load" /\ ledger[NameOf(ret.arg)].state = "saved")
        => /\ ret.value # None
           /\ ret.value[1].model_state = ledger[NameOf(ret.arg)].snap.model_state
           /\ ret.value[1].episode = ledger[NameOf(ret.arg)].snap.episode
           /\ ret.value[1].reward = ledger[NameOf(ret.arg)].snap.reward

\* C8 witness: a bare-name load returned a saved snapshot that carries an
\* episode and a reward, while the other name holds a different snapshot.
C8_Witness ==
    /\ ret.op = "load"
    /\ ret.arg = << "m" >>
    /\ ledger[<< "m" >>].state = "saved"
    /\ ledger[<< "n" >>].state = "saved"
    /\ ledger[<< "n" >>].snap # ledger[<< "m" >>].snap
    /\ ret.value # None
    /\ ret.value[1].episode = Some(2)
    /\ ret.value[1].reward = Some(1)

\* C9: once a saved name has been deleted, and until it is saved again, a
\* load of it returns None and list_checkpoints has no record of it.
C9_DeleteThenAbsent ==
    /\ (ret.op = "load" /\ ledger[NameOf(ret.arg)].state = "deleted")
           => ret.value = None
    /\ ret.op = "list"
           => \A i \in 1 .. Len(ret.value) :
                  ledger[ret.value[i].name].state # "deleted"

\* C9 witness: a load of a deleted name returned None while the other name
\* is still stored.
C9_Witness ==
    /\ ret.op = "load"
    /\ ret.arg = << "m" >>
    /\ ledger[<< "m" >>].state = "deleted"
    /\ ledger[<< "n" >>].state = "saved"
    /\ ret.value = None

\* C10: list_checkpoints returns exactly one record for every name saved and
\* not deleted since, carrying the timestamp of the name's most recent save,
\* and the records are ordered by that save from the newest to the oldest.
C10_ListNewestFirst ==
    ret.op = "list"
        => /\ Len(ret.value) = Cardinality(Live)
           /\ { ret.value[i].name : i \in 1 .. Len(ret.value) } = Live
           /\ \A i \in 1 .. Len(ret.value) :
                  ret.value[i].timestamp = IsoFormat(ledger[ret.value[i].name].at)
           /\ \A i, j \in 1 .. Len(ret.value) :
                  i < j => ledger[ret.value[i].name].at
                               > ledger[ret.value[j].name].at

\* C10 witness: both names are listed, the later-saved one first; the two
\* timestamps differ in length (one has no sub-second field).
C10_Witness ==
    /\ ret.op = "list"
    /\ Len(ret.value) = 2
    /\ ret.value[1].name = << "n" >>
    /\ ret.value[2].name = << "m" >>
    /\ ledger[<< "n" >>].at > ledger[<< "m" >>].at
    /\ Len(ret.value[1].timestamp) # Len(ret.value[2].timestamp)

\* C11: save overwrites without versioning.  After a save of s2 over a save
\* of s1 under the same name, load returns s2's content (every key of the
\* loaded dictionary is what the second save wrote), and list_checkpoints
\* holds a single record for the name, carrying s2's episode, reward (0 for
\* a key s2 does not have) and timestamp: nothing of s1 is retrievable.
C11_SaveOverwrites ==
    /\ (ret.op = "load" /\ ledger[NameOf(ret.arg)].state = "saved")
           => LET last == ledger[NameOf(ret.arg)]
              IN  /\ ret.value # None
                  /\ ret.value[1].model_state = last.snap.model_state
                  /\ ret.value[1].episode = last.snap.episode
                  /\ ret.value[1].reward = last.snap.reward
                  /\ ret.value[1].metadata =
                         (IF Truthy(last.metadata) THEN last.metadata ELSE None)
                  /\ ret.value[1].timestamp = IsoFormat(last.at)
    /\ ret.op = "list"
           => \A n \in Live :
                  /\ Cardinality({ i \in 1 .. Len(ret.value) :
                                      ret.value[i].name = n }) = 1
                  /\ \A i \in 1 .. Len(ret.value) :
                         ret.value[i].name = n
                             => /\ ret.value[i].episode
                                       = GetOr(ledger[n].snap.episode, 0)
                                /\ ret.value[i].reward
                                       = GetOr(ledger[n].snap.reward, 0)
                                /\ ret.value[i].timestamp
                                       = IsoFormat(ledger[n].at)

\* C11 witness: list_checkpoints ran after a snapshot with an episode and a
\* reward was overwritten by a different snapshot under the same name, the
\* other name being stored too.
C11_Witness ==
    /\ ret.op = "list"
    /\ ledger[<< "m" >>].state = "saved"
    /\ ledger[<< "n" >>].state = "saved"
    /\ ledger[<< "m" >>].before # None
    /\ ledger[<< "m" >>].before[1].episode = Some(2)
    /\ ledger[<< "m" >>].snap.episode = Some(1)
    /\ Len(ret.value) = 2

C13_LoadNeverRaises ==
    [][ ret'.op = "load"
        => /\ ~ ret'.raised
           /\ files' = files
           /\ ( \/ ~ Exists(files, PtPath(NameOf(ret'.arg)))
                \/ ~ Readable(files[PtPath(NameOf(ret'.arg))][1]) )
                  => ret'.value = None ]_vars

\* C13 witness: a load by location of a snapshot file that a failed save
\* left unreadable returned None, the other name being stored.
C13_Witness ==
    /\ ret.op = "load"
    /\ ret.arg = PtPath(<< "m" >>)
    /\ Exists(files, PtPath(<< "m" >>))
    /\ ~ Readable(files[PtPath(<< "m" >>)][1])
    /\ ledger[<< "n" >>].state = "saved"
    /\ ~ ret.raised
    /\ ret.value = None

\* Whether the last save of a stored name carried the metric, in its
\* snapshot or in its metadata argument.
Carried(last, metric) ==
    \/ metric = "reward" /\ last.snap.reward # None
    \/ Truthy(last.metadata) /\ HasKey(last.metadata[1], metric)

\* The metric value the last save of a stored name carried.
CarriedValue(last, metric) ==
    IF Truthy(last.metadata) /\ HasKey(last.metadata[1], metric)
    THEN DictGet(last.metadata[1], metric, 0)
    ELSE last.snap.reward[1]

\* C14: get_best(metric, maximize) returns None when no stored checkpoint
\* carried the metric, and otherwise a checkpoint that carried it and whose
\* value is the best among those that did; a checkpoint saved without the
\* metric is never returned.
C14_GetBestOnlyCarriers ==
    ret.op = "get_best"
    => LET carriers == { n \in Live : Carried(ledger[n], ret.metric) }
       IN  IF carriers = {} THEN ret.value = None
           ELSE /\ ret.value # None
                /\ ret.value[1] \in carriers
                /\ \A n \in carriers :
                      IF ret.maximize
                      THEN CarriedValue(ledger[n], ret.metric)
                               <= CarriedValue(ledger[ret.value[1]], ret.metric)
                      ELSE CarriedValue(ledger[ret.value[1]], ret.metric)
                               <= CarriedValue(ledger[n], ret.metric)

\* C15: a save that fails with an I/O error leaves load(name) and the
\* list_checkpoints record of name as they were before the call.
C15_FailedSaveLeavesNothing ==
    [][ (ret'.op = "save" /\ ret'.raised)
        => /\ LoadResult(files', ret'.name) = LoadResult(files, ret'.name)
           /\ ListedRecord(files', ret'.name)
                  = ListedRecord(files, ret'.name) ]_vars

(***************************************************************************)
(* Sessions calling save and delete on one checkpoint directory at the     *)
(* same time.  CheckpointManager takes no lock and writes in place, so a   *)
(* call is a sequence of file-system steps that the steps of another       *)
(* session's call can come between.  Each write or unlink is one step.     *)
(***************************************************************************)

\* save(name, snap, metadata) up to the point where the dictionary to write
\* is complete: the clock has been read.
SaveBegin(s, name, snap, metadata, d) ==
    /\ calls[s].pc = "idle"
    /\ clock + d <= MaxClock
    /\ clock' = clock + d
    /\ calls' = [calls EXCEPT ![s] =
                    [pc |-> "snapshot", name |-> name,
                     checkpoint |-> CheckpointDict(snap, metadata, clock')]]
    /\ UNCHANGED << buffer, pushed, files, ledger, ret, agentVars >>

\* torch.save(checkpoint, checkpoint_path)
SaveSnapshot(s) ==
    /\ calls[s].pc = "snapshot"
    /\ files' = [files EXCEPT ![PtPath(calls[s].name)] =
                                 Some(calls[s].checkpoint)]
    /\ calls' = [calls EXCEPT ![s].pc = "sidecar"]
    /\ UNCHANGED << buffer, pushed, clock, ledger, ret, agentVars >>

\* The sidecar is written and save returns.
SaveSidecar(s) ==
    /\ calls[s].pc = "sidecar"
    /\ files' = [files EXCEPT ![MetadataPath(calls[s].name)] =
                                 Some(Sidecar(calls[s].name, calls[s].checkpoint))]
    /\ calls' = [calls EXCEPT ![s] = [pc |-> "idle"]]
    /\ ret' = [op |-> "save", name |-> calls[s].name, raised |-> FALSE,
               value |-> Some(PtPath(calls[s].name))]
    /\ UNCHANGED << buffer, pushed, clock, ledger, agentVars >>

\* delete(name) up to and including the unlink of the snapshot file.
DeleteSnapshot(s, name) ==
    /\ calls[s].pc = "idle"
    /\ files' = [files EXCEPT ![PtPath(name)] = None]
    /\ calls' = [calls EXCEPT ![s] =
                    [pc |-> "unlink_metadata", name |-> name,
                     deleted |-> Exists(files, PtPath(name))]]
    /\ UNCHANGED << buffer, pushed, clock, ledger, ret, agentVars >>

\* The sidecar is unlinked and delete returns.
DeleteSidecar(s) ==
    /\ calls[s].pc = "unlink_metadata"
    /\ files' = [files EXCEPT ![MetadataPath(calls[s].name)] = None]
    /\ calls' = [calls EXCEPT ![s] = [pc |-> "idle"]]
    /\ ret' = [op |-> "delete", name |-> calls[s].name,
               value |-> ( calls[s].deleted
                           \/ Exists(files, MetadataPath(calls[s].name)) )]
    /\ UNCHANGED << buffer, pushed, clock, ledger, agentVars >>

SessionsNext ==
    \/ \E s \in Sessions, n \in Names, w \in Snapshots :
           SaveBegin(s, n, w, None, 1)
    \/ \E s \in Sessions : SaveSnapshot(s)
    \/ \E s \in Sessions : SaveSidecar(s)
    \/ \E s \in Sessions, n \in Names : DeleteSnapshot(s, n)
    \/ \E s \in Sessions : DeleteSidecar(s)

SpecSessions == CkptInit /\ [][SessionsNext]_vars

\* Every call has returned.
AllReturned == \A s \in Sessions : calls[s].pc = "idle"

\* C19: once every call has returned, a name whose snapshot file and
\* sidecar both exist has them from one save call: the record
\* list_checkpoints gives and the snapshot load gives agree on episode,
\* reward and timestamp.  In particular after two saves of one name that ran
\* at the same time.
C19_SnapshotAndSidecarFromOneSave ==
    AllReturned
    => \A n \in Names :
          ( LoadResult(files, n) # None /\ ListedRecord(files, n) # None )
          => LET snapshot == LoadResult(files, n)[1]
                 record   == ListedRecord(files, n)[1]
             IN  /\ record.episode = GetOr(snapshot.episode, 0)
                 /\ record.reward = GetOr(snapshot.reward, 0)
                 /\ record.timestamp = snapshot.timestamp

\* C20: once every call has returned, a name is loadable exactly when it is
\* listed.  In particular after a save and a delete of one name that ran at
\* the same time.
C20_PresentOrAbsent ==
    AllReturned
    => \A n \in Names :
          LoadResult(files, n) # None <=> ListedRecord(files, n) # None

(***************************************************************************)
(* The parametric functions (QNetwork, DuelingQNetwork, PolicyNetwork,     *)
(* ActorNetwork, CriticNetwork, ActorCriticNetwork)                        *)
(*                                                                         *)
(* A network is its output layer over NumHidden hidden units.  A state is  *)
(* the set of hidden units it activates.  The parameter vectors are a      *)
(* finite family 0 .. NumTheta - 1; NaNTheta is a parameter vector whose   *)
(* entries are all NaN.  Activations are in quarter units, so that the     *)
(* 1 / (1 - 0.2) scaling of a kept dropout unit is the integer factor 5.   *)
(***************************************************************************)

\* action_size of the agent under test.
ActionSize == 2

\* Number of hidden units.
NumHidden == 1

\* Number of parameter vectors in the family.
NumTheta == 2

\* Logit distance below the largest logit at which softmax underflows to 0.
UnderflowGap == 10

Actions == 0 .. ActionSize - 1

Hidden == 1 .. NumHidden

States == (SUBSET Hidden) \ {{}}

Thetas == 0 .. NumTheta - 1

NaNTheta == -1

\* The non-empty available-action lists a caller may pass.
AvailableSets == (SUBSET Actions) \ {{}}

\* The output-layer weight from hidden unit j to output a.
Weight(theta, j, a) == ((theta + j * (a + 1)) % 3) - 1

\* The weight from hidden unit j to the scalar value output.
ValueWeight(theta, j) == ((theta + j) % 3) - 1

RECURSIVE SumTo(_, _)
SumTo(f, n) == IF n = 0 THEN 0 ELSE f[n] + SumTo(f, n - 1)

\* nn.Module.training: True from construction; the agents never call eval().
ModuleTraining == TRUE

\* The sets of kept units nn.Dropout(0.2) may draw in one forward pass.
DropoutMasks == IF ModuleTraining THEN SUBSET Hidden ELSE { Hidden }

\* nn.Dropout(0.2) on an activation x (quarter units out).
Dropout(x, kept) ==
    IF ModuleTraining THEN (IF kept THEN 5 * x ELSE 0) ELSE 4 * x

\* The activation of hidden unit j on state s after dropout.
Activation(s, mask, j) == Dropout(IF j \in s THEN 1 ELSE 0, j \in mask)

\* QNetwork.forward / PolicyNetwork.forward / ActorNetwork.forward /
\* the actor head of ActorCriticNetwork: one output per action.
Output(theta, s, mask, a) ==
    SumTo([j \in Hidden |-> Activation(s, mask, j) * Weight(theta, j, a)],
          NumHidden)

RECURSIVE Outputs(_, _, _, _)
Outputs(theta, s, mask, n) ==
    IF n = 0 THEN << >>
    ELSE Append(Outputs(theta, s, mask, n - 1), Output(theta, s, mask, n - 1))

Forward(theta, s, mask) ==
    LET out == Outputs(theta, s, mask, ActionSize)
    IN  [a \in Actions |-> out[a + 1]]

\* CriticNetwork.forward / the critic head / the value stream.
ValueForward(theta, s, mask) ==
    SumTo([j \in Hidden |-> Activation(s, mask, j) * ValueWeight(theta, j)],
          NumHidden)

\* DuelingQNetwork.forward: Q = V + (A - mean(A)), times ActionSize.
DuelingForward(theta, s, mask) ==
    LET adv == Outputs(theta, s, mask, ActionSize)
        total == SumTo(adv, ActionSize)
        value == ValueForward(theta, s, mask)
    IN  [a \in Actions |-> ActionSize * value + ActionSize * adv[a + 1] - total]

\* The largest entry of a vector over the actions.
MaxOf(v) ==
    LET entries == { v[a] : a \in Actions }
    IN  CHOOSE x \in entries : \A y \in entries : y <= x

\* np.argmax of an unmasked vector: the first index of the largest entry.
ArgMax(v) ==
    LET largest == { a \in Actions : v[a] = MaxOf(v) }
    IN  CHOOSE a \in largest : \A b \in largest : a <= b

\* masked_q = np.full(action_size, -inf); masked_q[available] = q[available]:
\* << >> stands for -inf.
MaskedQ(q, available) ==
    [a \in Actions |-> IF a \in available THEN Some(q[a]) ELSE None]

\* x < y on masked values, -inf below every number.
MaskedLess(x, y) ==
    IF y = None THEN FALSE ELSE IF x = None THEN TRUE ELSE x[1] < y[1]

\* A choice of the first entry that is not -inf, whatever its value.
FirstUnmasked(masked) ==
    LET open == { a \in Actions : masked[a] # None }
    IN  CHOOSE a \in open : \A b \in open : a <= b

\* np.argmax(masked_q): the first index that no other entry exceeds.
ArgMaxMasked(masked) ==
    LET largest == { a \in Actions :
                       \A b \in Actions : ~ MaskedLess(masked[a], masked[b]) }
    IN  CHOOSE a \in largest : \A b \in largest : a <= b

\* torch.softmax in floating point: an output is positive unless its logit
\* is UnderflowGap or more below the largest one.
SoftmaxPositive(logits) ==
    LET largest == MaxOf(logits)
    IN  { a \in Actions : largest - logits[a] < UnderflowGap }

\* masked_probs = action_probs * mask: the actions left with positive mass.
MaskedSupport(logits, available) == SoftmaxPositive(logits) \cap available

(***************************************************************************)
(* The agents (models/dqn.py, policy_gradient.py, actor_critic.py, ppo.py) *)
(***************************************************************************)

\* batch_size of the value-based agents under test.
BatchSize == 2

\* target_update_freq of the value-based agents under test.
TargetUpdateFreq == 2

\* Number of optimizer steps explored.
MaxUpdates == 2

\* Number of steps one episode or rollout buffer is filled with.
MaxSteps == 2

ValueBased == { "DQNAgent", "DoubleDQNAgent", "DuelingDQNAgent" }

OnPolicy == { "PolicyGradientAgent", "ActorCriticAgent", "PPOAgent" }

\* Exact fractions << n, d >>, d > 0.
FracLess(x, y) == x[1] * y[2] < y[1] * x[2]

FracTimes(x, y) == << x[1] * y[1], x[2] * y[2] >>

\* The values in (0, 1] that epsilon and epsilon_min are constructed with.
Fractions == { << 1, 2 >>, << 1, 1 >> }

\* The values in (0, 1) that epsilon_decay is constructed with.
DecayFractions == { << 1, 3 >>, << 1, 2 >> }

\* DQNAgent.__init__ (and DuelingDQNAgent.__init__): the target network
\* starts as a copy of the online network, the replay buffer empty.
NewValueBased(theta, epsilon, epsilon_min, epsilon_decay) ==
    [ q_network          |-> theta,
      target_network     |-> theta,
      optimizer          |-> 0,
      epsilon            |-> epsilon,
      epsilon_min        |-> epsilon_min,
      epsilon_decay      |-> epsilon_decay,
      batch_size         |-> BatchSize,
      target_update_freq |-> TargetUpdateFreq,
      update_counter     |-> 0,
      memory             |-> << >> ]

\* PolicyGradientAgent.__init__ with reset_episode.
NewPolicyGradient(theta) ==
    [ policy |-> theta, optimizer |-> 0,
      saved_log_probs |-> << >>, rewards |-> << >> ]

\* ActorCriticAgent.__init__ with reset_episode.
NewActorCritic(theta, critic) ==
    [ actor |-> theta, critic |-> critic,
      actor_optimizer |-> 0, critic_optimizer |-> 0,
      saved_log_probs |-> << >>, values |-> << >>,
      rewards |-> << >>, entropies |-> << >> ]

\* PPOAgent.__init__ with reset_trajectory.
NewPPO(theta) ==
    [ policy |-> theta, optimizer |-> 0,
      states |-> << >>, actions |-> << >>, rewards |-> << >>,
      values |-> << >>, log_probs |-> << >>, dones |-> << >> ]

\* The network whose outputs select_action reads.
PolicyOf(k, ag) ==
    IF k \in ValueBased THEN ag.q_network
    ELSE IF k = "ActorCriticAgent" THEN ag.actor
    ELSE ag.policy

\* The Q-values of the online network.
QValues(k, theta, s, mask) ==
    IF k = "DuelingDQNAgent" THEN DuelingForward(theta, s, mask)
    ELSE Forward(theta, s, mask)

\* A greedy choice that takes the arg-max over all actions, legal or not.
GreedyActionUnmasked(q, available) == ArgMax(q)

\* DQNAgent.select_action below the exploration test: mask, then arg-max.
GreedyAction(q, available) == ArgMaxMasked(MaskedQ(q, available))

\* A sampler that draws from the unmasked distribution.
SampledActionsUnmasked(theta, logits, available) ==
    IF theta = NaNTheta THEN {} ELSE SoftmaxPositive(logits)

\* The actions Categorical(masked_probs).sample() can return; none when the
\* probabilities are NaN (NaN parameters, or a zero sum), which makes the
\* Categorical constructor raise ValueError.
SampledActions(theta, logits, available) ==
    IF theta = NaNTheta THEN {} ELSE MaskedSupport(logits, available)

\* A stored tensor or number (a log-probability, a value estimate, an
\* entropy, a state vector, an action, a reward, a done flag): the buffers
\* are modelled by what they hold per step, not by its numeric content.
Tensor == "tensor"

\* The fields select_action appends to when training is true.
Record(k, ag) ==
    IF k = "PolicyGradientAgent" THEN
        [ag EXCEPT !.saved_log_probs = Append(@, Tensor)]
    ELSE IF k = "ActorCriticAgent" THEN
        [ag EXCEPT !.saved_log_probs = Append(@, Tensor),
                   !.values = Append(@, Tensor),
                   !.entropies = Append(@, Tensor)]
    ELSE
        [ag EXCEPT !.states = Append(@, Tensor),
                   !.actions = Append(@, Tensor),
                   !.values = Append(@, Tensor),
                   !.log_probs = Append(@, Tensor)]

\* The number of steps select_action has recorded.
RecordedSteps(k, ag) ==
    IF k = "PPOAgent" THEN Len(ag.states) ELSE Len(ag.saved_log_probs)

\* The exploration hyperparameters << epsilon, epsilon_min, epsilon_decay >>
\* an agent is constructed with: epsilon_min <= epsilon, 0 < decay < 1.
Exploration ==
    { h \in Fractions \X Fractions \X DecayFractions : ~ FracLess(h[1], h[2]) }

\* The agents a session may construct.
NewAgents(k) ==
    IF k \in ValueBased THEN
        { NewValueBased(t, h[1], h[2], h[3]) : t \in Thetas, h \in Exploration }
    ELSE IF k = "PolicyGradientAgent" THEN { NewPolicyGradient(t) : t \in Thetas }
    ELSE IF k = "ActorCriticAgent" THEN
        { NewActorCritic(t, c) : t \in Thetas, c \in Thetas }
    ELSE { NewPPO(t) : t \in Thetas }

AgentInit ==
    /\ buffer = << >>
    /\ pushed = << >>
    /\ files = << >>
    /\ clock = 0
    /\ ledger = << >>
    /\ kind \in ValueBased \cup OnPolicy
    /\ agent \in NewAgents(kind)
    /\ restored = << >>
    /\ ret = [op |-> "init"]
    /\ calls = NoCalls

\* DQNAgent.select_action (inherited by the Double and Dueling agents) when
\* training and random.random() < epsilon: `a` is what random.choice returns.
SelectActionExplore(available, a) ==
    /\ kind \in ValueBased
    /\ a \in available
    /\ ret' = [ op        |-> "select_action",
                available |-> available,
                training  |-> TRUE,
                explored  |-> TRUE,
                value     |-> Some(a) ]
    /\ UNCHANGED << agentVars, storeVars >>

\* DQNAgent.select_action otherwise (training false, or the random draw not
\* below epsilon, which needs epsilon < 1): `mask` is the dropout draw of the
\* forward pass.
SelectActionGreedy(s, available, training, mask) ==
    /\ kind \in ValueBased
    /\ training => FracLess(agent.epsilon, << 1, 1 >>)
    /\ ret' = [ op        |-> "select_action",
                available |-> available,
                training  |-> training,
                explored  |-> FALSE,
                q         |-> QValues(kind, agent.q_network, s, mask),
                value     |-> Some(GreedyAction(
                                  QValues(kind, agent.q_network, s, mask),
                                  available)) ]
    /\ UNCHANGED << agentVars, storeVars >>

\* What select_action of an on-policy agent can return on state s with
\* dropout draw mask: Some(a) for every action the masked distribution gives
\* positive mass, None (the call raises) when there is none.
SelectResults(theta, s, mask, available) ==
    LET outcomes == SampledActions(theta, Forward(theta, s, mask), available)
    IN  IF outcomes = {} THEN { None } ELSE { Some(a) : a \in outcomes }

\* What select_action can return over the states the environment presents
\* and the dropout draws of the forward pass.
SelectOutcomes(theta, available) ==
    UNION { SelectResults(theta, s, mask, available) :
                s \in States, mask \in DropoutMasks }

\* select_action of the three on-policy agents, on some state and with some
\* dropout draw.
SelectActionOnPolicy(available, training) ==
    /\ kind \in OnPolicy
    /\ \E result \in SelectOutcomes(PolicyOf(kind, agent), available) :
           /\ (training /\ result # None)
                  => RecordedSteps(kind, agent) < MaxSteps
           /\ ret' = [ op        |-> "select_action",
                       available |-> available,
                       value     |-> result ]
           /\ agent' = IF training /\ result # None
                       THEN Record(kind, agent) ELSE agent
    /\ UNCHANGED << kind, restored, storeVars >>

\* ppo_epochs of the PPO agent under test.
PpoEpochs == 2

\* The transitions the environment produces for remember().
Experience == { "t1", "t2" }

\* A train_step return: `outcome` is "zero" (the early return), "update",
\* "nan" (an update whose losses are NaN) or "raise"; a loss is 0 for the
\* literal 0.0, 1 for a computed finite loss and -1 for NaN.
Metric(k, x) ==
    IF k = "ActorCriticAgent" THEN << x, x >>
    ELSE IF k = "PPOAgent" THEN << x, x, x >>
    ELSE << x >>

TrainReturn(k, outcome) ==
    [ op      |-> "train_step",
      outcome |-> outcome,
      value   |-> IF outcome = "zero" THEN Some(Metric(k, 0))
                  ELSE IF outcome = "update" THEN Some(Metric(k, 1))
                  ELSE IF outcome = "nan" THEN Some(Metric(k, -1))
                  ELSE None ]

\* if self.epsilon > self.epsilon_min: self.epsilon *= self.epsilon_decay
DecayedEpsilon(ag) ==
    IF FracLess(ag.epsilon_min, ag.epsilon)
    THEN FracTimes(ag.epsilon, ag.epsilon_decay)
    ELSE ag.epsilon

\* A guard that lets train_step run on whatever the buffer holds.
EnoughMemoryAlways(ag) == TRUE

\* The negation of train_step's early return: len(memory) >= batch_size.
EnoughMemory(ag) == ~ (BufLen(ag.memory) < ag.batch_size)

\* A cadence that copies the online network after every update.
SyncDueAlways(counter, freq) == TRUE

\* if self.update_counter % self.target_update_freq == 0
SyncDue(counter, freq) == counter % freq = 0

\* DQNAgent.train_step / DoubleDQNAgent.train_step past the early return:
\* new_q is the online network after the optimizer step.
UpdatedValueBased(ag, new_q) ==
    LET counter == ag.update_counter + 1
    IN  [ag EXCEPT
            !.q_network = new_q,
            !.optimizer = @ + 1,
            !.update_counter = counter,
            !.target_network =
                IF SyncDue(counter, ag.target_update_freq) THEN new_q ELSE @,
            !.epsilon = DecayedEpsilon(ag)]

\* DQNAgent.train_step / DoubleDQNAgent.train_step
TrainedValueBased(ag, new_q) ==
    IF EnoughMemory(ag) THEN UpdatedValueBased(ag, new_q) ELSE ag

\* DQNAgent.remember
Remembered(ag, t) == [ag EXCEPT !.memory = Push(@, Capacity, t)]

\* A guard that never takes the early return.
HasExperienceAlways(k, ag) == TRUE

\* The negation of train_step's early return in the on-policy agents:
\* len(self.rewards) == 0, and in PPO len(self.states) == 0.
HasExperience(k, ag) ==
    IF k = "PPOAgent" THEN Len(ag.states) # 0 ELSE Len(ag.rewards) # 0

\* What an on-policy train_step can do with n stored rewards and m recorded
\* steps.  The standard deviation of a single return or advantage is NaN and
\* makes every loss and, through the optimizer step, every parameter NaN.
TrainOutcomes(k, ag) ==
    LET n == Len(ag.rewards)
        m == RecordedSteps(k, ag)
    IN  IF ~ HasExperience(k, ag) THEN { "zero" }
        ELSE IF k = "PolicyGradientAgent" THEN
            \* torch.stack of an empty list raises
            IF m = 0 THEN { "raise" }
            ELSE IF n = 1 THEN { "nan" }
            ELSE { "update" }
        ELSE IF k = "ActorCriticAgent" THEN
            \* torch.cat of an empty list raises; returns - values needs
            \* broadcastable shapes
            IF m = 0 THEN { "raise" }
            ELSE IF n # m /\ n # 1 /\ m # 1 THEN { "raise" }
            ELSE IF n = 1 THEN { "nan" }
            ELSE { "update" }
        ELSE
            \* compute_gae indexes values[t + 1] for every reward; ratio *
            \* advantages needs broadcastable shapes; with NaN parameters
            \* the second epoch's Categorical raises
            IF n > m THEN { "raise" }
            ELSE IF n = 0 THEN (IF m = 1 THEN { "update", "nan" } ELSE { "raise" })
            ELSE IF n = 1 THEN (IF PpoEpochs > 1 THEN { "nan_raise" } ELSE { "nan" })
            ELSE IF n < m THEN { "raise" }
            ELSE { "update" }

\* reset_episode / reset_trajectory
ResetBuffers(k, ag) ==
    IF k = "PolicyGradientAgent" THEN
        [ag EXCEPT !.saved_log_probs = << >>, !.rewards = << >>]
    ELSE IF k = "ActorCriticAgent" THEN
        [ag EXCEPT !.saved_log_probs = << >>, !.values = << >>,
                   !.rewards = << >>, !.entropies = << >>]
    ELSE
        [ag EXCEPT !.states = << >>, !.actions = << >>, !.rewards = << >>,
                   !.values = << >>, !.log_probs = << >>, !.dones = << >>]

\* The optimizer steps of one train_step.
Stepped(k, ag, theta, critic, steps) ==
    IF k = "ActorCriticAgent" THEN
        [ag EXCEPT !.actor = theta, !.critic = critic,
                   !.actor_optimizer = @ + steps,
                   !.critic_optimizer = @ + steps]
    ELSE [ag EXCEPT !.policy = theta, !.optimizer = @ + steps]

\* train_step of the on-policy agents with the given outcome; theta and
\* critic are the parameters a finite update arrives at.
TrainedOnPolicy(k, ag, outcome, theta, critic) ==
    LET epochs == IF k = "PPOAgent" THEN PpoEpochs ELSE 1
    IN  IF outcome = "update" THEN
            ResetBuffers(k, Stepped(k, ag, theta, critic, epochs))
        ELSE IF outcome = "nan" THEN
            ResetBuffers(k, Stepped(k, ag, NaNTheta, NaNTheta, epochs))
        ELSE IF outcome = "nan_raise" THEN
            Stepped(k, ag, NaNTheta, NaNTheta, 1)
        ELSE ag

\* The optimizer steps an on-policy agent has taken.
OptimizerSteps(k, ag) ==
    IF k = "ActorCriticAgent" THEN ag.actor_optimizer ELSE ag.optimizer

\* store_reward
Rewarded(k, ag) ==
    IF k = "PPOAgent"
    THEN [ag EXCEPT !.rewards = Append(@, Tensor), !.dones = Append(@, Tensor)]
    ELSE [ag EXCEPT !.rewards = Append(@, Tensor)]

Remember(t) ==
    /\ kind \in ValueBased
    /\ agent' = Remembered(agent, t)
    /\ ret' = [op |-> "remember"]
    /\ UNCHANGED << kind, restored, storeVars >>

TrainStepValueBased(new_q) ==
    /\ kind \in ValueBased
    /\ EnoughMemory(agent) => agent.optimizer < MaxUpdates
    /\ agent' = TrainedValueBased(agent, new_q)
    /\ ret' = TrainReturn(kind, IF EnoughMemory(agent) THEN "update" ELSE "zero")
    /\ UNCHANGED << kind, restored, storeVars >>

StoreReward ==
    /\ kind \in OnPolicy
    /\ Len(agent.rewards) < MaxSteps
    /\ agent' = Rewarded(kind, agent)
    /\ ret' = [op |-> "store_reward"]
    /\ UNCHANGED << kind, restored, storeVars >>

TrainStepOnPolicy(outcome, theta, critic) ==
    /\ kind \in OnPolicy
    /\ outcome \in TrainOutcomes(kind, agent)
    /\ outcome \in { "update", "nan", "nan_raise" }
           => OptimizerSteps(kind, agent) < MaxUpdates
    /\ agent' = TrainedOnPolicy(kind, agent, outcome, theta, critic)
    /\ ret' = TrainReturn(kind, IF outcome = "nan_raise" THEN "raise" ELSE outcome)
    /\ UNCHANGED << kind, restored, storeVars >>

Outcomes == { "zero", "update", "nan", "nan_raise", "raise" }

AgentNext ==
    \/ \E av \in AvailableSets, training \in BOOLEAN :
           SelectActionOnPolicy(av, training)
    \/ \E t \in Experience : Remember(t)
    \/ \E q \in Thetas : TrainStepValueBased(q)
    \/ StoreReward
    \/ \E o \in Outcomes, t \in Thetas, c \in Thetas : TrainStepOnPolicy(o, t, c)

Spec == AgentInit /\ [][AgentNext]_vars

\* The agents select_action may be called on: a constructed agent, or an
\* on-policy agent whose parameters an update has made NaN.
SelectAgents(k) ==
    NewAgents(k) \cup
        (IF k = "PolicyGradientAgent" THEN { NewPolicyGradient(NaNTheta) }
         ELSE IF k = "ActorCriticAgent" THEN { NewActorCritic(NaNTheta, NaNTheta) }
         ELSE IF k = "PPOAgent" THEN { NewPPO(NaNTheta) }
         ELSE {})

SelectInit ==
    /\ buffer = << >>
    /\ pushed = << >>
    /\ files = << >>
    /\ clock = 0
    /\ ledger = << >>
    /\ kind \in ValueBased \cup OnPolicy
    /\ agent \in SelectAgents(kind)
    /\ restored = << >>
    /\ ret = [op |-> "init"]
    /\ calls = NoCalls

SelectNext ==
    \/ \E av \in AvailableSets, a \in Actions : SelectActionExplore(av, a)
    \/ \E s \in States, av \in AvailableSets, training \in BOOLEAN,
          mask \in DropoutMasks :
           SelectActionGreedy(s, av, training, mask)
    \/ \E av \in AvailableSets, training \in BOOLEAN :
           SelectActionOnPolicy(av, training)

SpecSelect == SelectInit /\ [][SelectNext]_vars


(***************************************************************************)
(* Snapshots of an agent (state_dict / load_state_dict)                    *)
(***************************************************************************)

\* state_dict of each agent.
StateDict(k, ag) ==
    IF k \in ValueBased THEN
        [ q_network      |-> ag.q_network,
          target_network |-> ag.target_network,
          optimizer      |-> ag.optimizer,
          epsilon        |-> ag.epsilon ]
    ELSE IF k = "ActorCriticAgent" THEN
        [ actor            |-> ag.actor,
          critic           |-> ag.critic,
          actor_optimizer  |-> ag.actor_optimizer,
          critic_optimizer |-> ag.critic_optimizer ]
    ELSE [ policy |-> ag.policy, optimizer |-> ag.optimizer ]

\* DQNAgent.load_state_dict: the four entries of the snapshot are written
\* into the agent, every other field keeps what the constructor gave it.
LoadedStateDict(ag, sd) ==
    [ag EXCEPT !.q_network = sd.q_network,
               !.target_network = sd.target_network,
               !.optimizer = sd.optimizer,
               !.epsilon = sd.epsilon]

\* A value-based agent is snapshotted and the snapshot loaded into a freshly
\* constructed agent with the same constructor arguments; theta and epsilon
\* are the fresh agent's random initialisation and initial epsilon.
Restore(theta, epsilon) ==
    /\ kind \in ValueBased
    /\ restored = None
    /\ ~ FracLess(epsilon, agent.epsilon_min)
    /\ restored' = Some(LoadedStateDict(
                       NewValueBased(theta, epsilon, agent.epsilon_min,
                                     agent.epsilon_decay),
                       StateDict(kind, agent)))
    /\ ret' = [op |-> "load_state_dict"]
    /\ UNCHANGED << kind, agent, storeVars >>

\* The same remember call on the original and on the restored agent.
RememberBoth(t) ==
    /\ restored # None
    /\ agent' = Remembered(agent, t)
    /\ restored' = Some(Remembered(restored[1], t))
    /\ ret' = [op |-> "remember"]
    /\ UNCHANGED << kind, storeVars >>

\* Whether a train_step that took ag to next ended with the hard update of
\* the target network.
HardSync(ag, next) ==
    /\ next.update_counter # ag.update_counter
    /\ next.update_counter % next.target_update_freq = 0

\* What the optimizer step computes from: two agents that agree on it and are
\* given the same minibatch arrive at the same online parameters.
Learner(ag) ==
    << ag.q_network, ag.target_network, ag.optimizer >>

\* The same train_step call, with the same sampled minibatch, on the
\* original and on the restored agent: new_q and new_q_restored are the
\* online parameters after the optimizer step.
TrainStepBoth(new_q, new_q_restored) ==
    /\ restored # None
    /\ EnoughMemory(agent) => agent.optimizer < MaxUpdates
    /\ EnoughMemory(restored[1]) => restored[1].optimizer < MaxUpdates
    /\ Learner(agent) = Learner(restored[1]) => new_q_restored = new_q
    /\ agent' = TrainedValueBased(agent, new_q)
    /\ restored' = Some(TrainedValueBased(restored[1], new_q_restored))
    /\ ret' = [ op       |-> "train_step",
                outcome  |-> IF EnoughMemory(agent) THEN "update" ELSE "zero",
                synced   |-> HardSync(agent, TrainedValueBased(agent, new_q)),
                restored |->
                    [ outcome |-> IF EnoughMemory(restored[1])
                                  THEN "update" ELSE "zero",
                      synced  |-> HardSync(restored[1],
                                      TrainedValueBased(restored[1],
                                                        new_q_restored)) ] ]
    /\ UNCHANGED << kind, storeVars >>

\* The actions select_action(s, available, training=False) can return over
\* the dropout draws of the forward pass.
GreedyOutcomes(k, ag, s, available) ==
    { GreedyAction(QValues(k, ag.q_network, s, mask), available) :
          mask \in DropoutMasks }

\* select_action(s, available, training=False) on the original, on the
\* restored agent, and on the original once more.
SelectGreedyBoth(s, available) ==
    /\ restored # None
    /\ \E a \in GreedyOutcomes(kind, agent, s, available),
          b \in GreedyOutcomes(kind, restored[1], s, available),
          c \in GreedyOutcomes(kind, agent, s, available) :
           ret' = [ op        |-> "select_action",
                    available |-> available,
                    value     |-> Some(a),
                    restored  |-> Some(b),
                    again     |-> Some(c) ]
    /\ UNCHANGED << agentVars, storeVars >>

RestoreInit ==
    /\ buffer = << >>
    /\ pushed = << >>
    /\ files = << >>
    /\ clock = 0
    /\ ledger = << >>
    /\ kind \in ValueBased
    /\ agent \in NewAgents(kind)
    /\ restored = None
    /\ ret = [op |-> "init"]
    /\ calls = NoCalls

RestoreNext ==
    \/ \E t \in Experience : restored = None /\ Remember(t)
    \/ \E q \in Thetas : restored = None /\ TrainStepValueBased(q)
    \/ \E theta \in Thetas, epsilon \in Fractions : Restore(theta, epsilon)
    \/ \E t \in Experience : RememberBoth(t)
    \/ \E q \in Thetas, r \in Thetas : TrainStepBoth(q, r)
    \/ \E s \in States, av \in AvailableSets : SelectGreedyBoth(s, av)

SpecRestore == RestoreInit /\ [][RestoreNext]_vars


(***************************************************************************)
(* Properties of the agents                                                *)
(***************************************************************************)

\* C1: in every agent, for every state, every non-empty set of available
\* actions and both values of the training flag, the action select_action
\* returns is a member of the available actions.  (A call that raises
\* returns no action.)
C1_SelectedAvailable ==
    (ret.op = "select_action" /\ ret.value # None)
        => ret.value[1] \in ret.available

\* A greedy call of a value-based agent has returned an available action
\* although the largest Q-value belongs to an unavailable one.
C1_Witness ==
    /\ kind \in ValueBased
    /\ ret.op = "select_action"
    /\ ~ ret.explored
    /\ ArgMax(ret.q) \notin ret.available
    /\ ret.value[1] \in ret.available

\* Every buffer of an on-policy agent is empty.
NoExperience(k, ag) == RecordedSteps(k, ag) = 0 /\ Len(ag.rewards) = 0

\* C3: train_step of an on-policy agent that holds no experience returns the
\* zero metric of its kind and leaves the agent's state_dict (network
\* parameters and optimizer state) as it was.
C3_EmptyTrainStepNoOp ==
    [][ ( /\ kind \in OnPolicy
          /\ NoExperience(kind, agent)
          /\ ret'.op = "train_step" )
        => ( /\ ret'.value = Some(Metric(kind, 0))
             /\ StateDict(kind, agent') = StateDict(kind, agent) ) ]_vars

\* An on-policy agent that has been updated before has taken the early
\* return of train_step with all its buffers empty.
C3_Witness ==
    /\ kind \in OnPolicy
    /\ ret.op = "train_step"
    /\ ret.outcome = "zero"
    /\ NoExperience(kind, agent)
    /\ OptimizerSteps(kind, agent) > 0

\* C4: train_step of a DQNAgent or DoubleDQNAgent whose replay buffer holds
\* fewer than batch_size transitions returns 0.0 and changes nothing: online
\* and target parameters, optimizer state, epsilon, update_counter and the
\* replay buffer all stay as they were.
C4_ShortMemoryTrainStepNoOp ==
    [][ ( /\ kind \in { "DQNAgent", "DoubleDQNAgent" }
          /\ BufLen(agent.memory) < agent.batch_size
          /\ ret'.op = "train_step" )
        => ( /\ ret'.value = Some(<< 0 >>)
             /\ agent' = agent ) ]_vars

\* A value-based agent whose buffer is
\* neither empty nor holds a whole minibatch, has taken the early return.
C4_Witness ==
    /\ kind \in { "DQNAgent", "DoubleDQNAgent" }
    /\ ret.op = "train_step"
    /\ ret.outcome = "zero"
    /\ BufLen(agent.memory) > 0
    /\ BufLen(agent.memory) < agent.batch_size

(***************************************************************************)
(* PPOAgent.compute_gae and the clipped surrogate of PPOAgent.train_step,    *)
(* in exact fractions.                                                       *)
(***************************************************************************)

\* The longest rollout compute_gae is applied to.
GaeLen == 2

FracPlus(x, y) == << x[1] * y[2] + y[1] * x[2], x[2] * y[2] >>

FracMinus(x, y) == << x[1] * y[2] - y[1] * x[2], x[2] * y[2] >>

FracEq(x, y) == x[1] * y[2] = y[1] * x[2]

FracMin(x, y) == IF FracLess(y, x) THEN y ELSE x

FracMax(x, y) == IF FracLess(x, y) THEN y ELSE x

Zero == << 0, 1 >>

One == << 1, 1 >>

\* The discount factors and GAE parameters an agent is constructed with.
Gammas == { Zero, << 1, 2 >>, One }

Lambdas == { Zero, << 1, 2 >>, One }

\* The rewards, value estimates and done flags of a recorded step.
Rewards == { << -1, 1 >>, << 1, 1 >> }

Values == { Zero, << 2, 1 >> }

Rollouts(n) == [ rewards : [1 .. n -> Rewards],
                 values  : [1 .. n -> Values],
                 dones   : [1 .. n -> BOOLEAN] ]

\* A PPOAgent holding a rollout of n steps, select_action(training=True) and
\* store_reward having been called in turn.
RolloutAgents ==
    { [gamma |-> g, gae_lambda |-> l,
       rewards |-> r.rewards, values |-> r.values, dones |-> r.dones] :
        g \in Gammas, l \in Lambdas,
        r \in UNION { Rollouts(n) : n \in 1 .. GaeLen } }

\* A bootstrap mask that ignores the done flag.
NotDoneIgnored(done) == One

\* (1 - self.dones[t])
NotDone(done) == IF done THEN Zero ELSE One

\* One iteration of the loop of compute_gae at step t (counted from 1), and
\* the iterations after it: gae is the accumulator, advantages the list built
\* so far by insert(0, gae).
RECURSIVE GaeLoop(_, _, _, _, _)
GaeLoop(ag, values, t, gae, advantages) ==
    IF t = 0 THEN advantages
    ELSE LET delta ==
                 FracMinus(
                     FracPlus(ag.rewards[t],
                              FracTimes(FracTimes(ag.gamma, values[t + 1]),
                                        NotDone(ag.dones[t]))),
                     values[t])
             next ==
                 FracPlus(delta,
                          FracTimes(FracTimes(FracTimes(ag.gamma, ag.gae_lambda),
                                              NotDone(ag.dones[t])),
                                    gae))
         IN  GaeLoop(ag, values, t - 1, next, << next >> \o advantages)

\* A compute_gae that hands the advantages back as the returns.
ComputeGaeAdvantagesTwice(ag) ==
    LET advantages ==
            GaeLoop(ag, ag.values \o << Zero >>, Len(ag.rewards), Zero, << >>)
    IN  [ advantages |-> advantages, returns |-> advantages ]

\* PPOAgent.compute_gae: << advantages, returns >>.
ComputeGaeResult(ag) ==
    LET values == ag.values \o << Zero >>
        advantages == GaeLoop(ag, values, Len(ag.rewards), Zero, << >>)
    IN  [ advantages |-> advantages,
          returns    |-> [ i \in 1 .. Min(Len(advantages), Len(ag.values)) |->
                               FracPlus(advantages[i], ag.values[i]) ] ]

GaeInit ==
    /\ buffer = << >>
    /\ pushed = << >>
    /\ files = << >>
    /\ clock = 0
    /\ ledger = << >>
    /\ kind = "PPOAgent"
    /\ agent \in RolloutAgents
    /\ restored = << >>
    /\ ret = [op |-> "init"]
    /\ calls = NoCalls

ComputeGae ==
    /\ ret' = [op |-> "compute_gae", value |-> ComputeGaeResult(agent)]
    /\ UNCHANGED << kind, agent, restored, storeVars >>

GaeNext == ComputeGae

SpecGae == GaeInit /\ [][GaeNext]_vars

\* The one-step TD residual r_t + gamma * V(s_{t+1}) * (1 - done_t) - V(s_t),
\* the value past the end of the rollout being 0.
TdResidual(ag, t) ==
    LET next_value == IF t = Len(ag.values) THEN Zero ELSE ag.values[t + 1]
        bootstrap  == IF ag.dones[t] THEN Zero
                      ELSE FracTimes(ag.gamma, next_value)
    IN  FracMinus(FracPlus(ag.rewards[t], bootstrap), ag.values[t])

\* C17: with gae_lambda = 0 every advantage compute_gae returns is the
\* one-step TD residual of its step; for a single-step rollout whose done
\* flag is true the advantage is reward - V(s).
C17_GaeSpecialCases ==
    ret.op = "compute_gae"
    => /\ FracEq(agent.gae_lambda, Zero)
            => /\ Len(ret.value.advantages) = Len(agent.rewards)
               /\ \A t \in 1 .. Len(agent.rewards) :
                     FracEq(ret.value.advantages[t], TdResidual(agent, t))
       /\ (Len(agent.rewards) = 1 /\ agent.dones[1])
            => /\ Len(ret.value.advantages) = 1
               /\ FracEq(ret.value.advantages[1],
                         FracMinus(agent.rewards[1], agent.values[1]))

\* C17 witness: compute_gae has run with gae_lambda = 0 on a two-step
\* rollout whose first step is done, with a discount and a next value that
\* are not 0, so that the mask decides the first advantage.
C17_Witness ==
    /\ ret.op = "compute_gae"
    /\ agent.gae_lambda = Zero
    /\ agent.gamma = One
    /\ Len(agent.rewards) = 2
    /\ agent.dones = << TRUE, FALSE >>
    /\ agent.values = << Zero, << 2, 1 >> >>
    /\ agent.rewards = << One, One >>
    /\ FracEq(ret.value.advantages[1], One)

\* The clip ranges, importance ratios and normalised advantages of a sample.
EpsilonClips == { << 1, 5 >>, << 1, 2 >>, << 1, 10 >> }

Ratios == { << 1, 4 >>, << 1, 2 >>, << 9, 10 >>, One, << 11, 10 >>,
            << 3, 2 >>, << 2, 1 >> }

Advantages == { << -2, 1 >>, << -1, 2 >>, Zero, << 1, 2 >>, << 2, 1 >> }

\* A clamp that has no upper end.
ClampNoUpper(x, lo, hi) == FracMax(x, lo)

\* torch.clamp(x, lo, hi)
Clamp(x, lo, hi) == FracMin(FracMax(x, lo), hi)

\* The term of one sample in the clipped surrogate objective:
\* torch.min(ratio * advantages, clamp(ratio, 1 - eps, 1 + eps) * advantages).
SurrogateTerm(ratio, advantage, epsilon_clip) ==
    LET surr1 == FracTimes(ratio, advantage)
        surr2 == FracTimes(Clamp(ratio, FracMinus(One, epsilon_clip),
                                 FracPlus(One, epsilon_clip)),
                           advantage)
    IN  FracMin(surr1, surr2)

ClipInit ==
    /\ buffer = << >>
    /\ pushed = << >>
    /\ files = << >>
    /\ clock = 0
    /\ ledger = << >>
    /\ kind = "PPOAgent"
    /\ agent \in [ epsilon_clip : EpsilonClips, ratio : Ratios,
                    advantage : Advantages ]
    /\ restored = << >>
    /\ ret = [op |-> "init"]
    /\ calls = NoCalls

Surrogate ==
    /\ ret' = [op |-> "surrogate",
               value |-> SurrogateTerm(agent.ratio, agent.advantage,
                                       agent.epsilon_clip)]
    /\ UNCHANGED << kind, agent, restored, storeVars >>

ClipNext == Surrogate

SpecClip == ClipInit /\ [][ClipNext]_vars

\* C18: for a sample with advantage > 0 and ratio > 1 + epsilon_clip the term
\* of the clipped surrogate is (1 + epsilon_clip) * advantage.
C18_ClippedAboveRange ==
    ( /\ ret.op = "surrogate"
      /\ FracLess(Zero, agent.advantage)
      /\ FracLess(FracPlus(One, agent.epsilon_clip), agent.ratio) )
    => FracEq(ret.value,
              FracTimes(FracPlus(One, agent.epsilon_clip), agent.advantage))

\* C18 witness: the term has been computed for ratio 2, advantage 1/2 and
\* clip range 1/5, and is 3/5 and not the unclipped 1.
C18_Witness ==
    /\ ret.op = "surrogate"
    /\ agent.ratio = << 2, 1 >>
    /\ agent.advantage = << 1, 2 >>
    /\ agent.epsilon_clip = << 1, 5 >>
    /\ FracEq(ret.value, << 3, 5 >>)

\* C16: every train_step call of an on-policy agent that performs a
\* parameter update (takes an optimizer step) leaves every trajectory buffer
\* of that agent empty: log-probs and rewards in PolicyGradientAgent; log-probs,
\* values, rewards and entropies in ActorCriticAgent; states, actions,
\* rewards, values, log-probs and dones in PPOAgent.
C16_UpdateClearsBuffers ==
    [][ ( /\ kind \in OnPolicy
          /\ ret'.op = "train_step"
          /\ OptimizerSteps(kind, agent') > OptimizerSteps(kind, agent) )
        => ResetBuffers(kind, agent') = agent' ]_vars

\* C5: in the value-based agents epsilon is never below epsilon_min, after
\* any number of completed updates, for every initial epsilon >= epsilon_min
\* and every epsilon_decay in (0, 1).
C5_EpsilonNeverBelowFloor ==
    kind \in ValueBased => ~ FracLess(agent.epsilon, agent.epsilon_min)

\* C6: after B.load_state_dict(A.state_dict()) a greedy select_action on a
\* fixed state and fixed available actions returns the same action on A and
\* on B, and a repeated greedy call on A returns that action again.
C6_RoundTripGreedy ==
    (restored # None /\ ret.op = "select_action")
        => (ret.restored = ret.value /\ ret.again = ret.value)

\* C7: a value-based agent restored from a snapshot and driven by the same
\* remember / train_step calls with the same minibatches as the original
\* has, after every update (both agents having completed the same updates
\* since the snapshot), the same epsilon as the original, and hard-syncs its
\* target network at exactly the update steps at which the original does.
C7_SnapshotComplete ==
    ( /\ restored # None
      /\ ret.op = "train_step"
      /\ ret.outcome = "update"
      /\ ret.restored.outcome = "update"
      /\ restored[1].optimizer = agent.optimizer )
        => ( /\ restored[1].epsilon = agent.epsilon
             /\ ret.restored.synced = ret.synced )

(***************************************************************************)
(* The bootstrap target of DQNAgent.train_step and                         *)
(* DoubleDQNAgent.train_step for one sampled transition.                   *)
(***************************************************************************)

\* The sampled transitions, as far as the target reads them.
SampledTransitions ==
    [ reward : Rewards, next_state : States, done : BOOLEAN ]

\* A value-based agent with the given networks and discount factor.
TargetAgents ==
    [ q_network : Thetas, target_network : Thetas, gamma : Gammas,
      sample : SampledTransitions ]

\* A next-state value that is the target network's maximum in every variant.
NextQTargetMax(k, online_q, target_q) == MaxOf(target_q)

\* next_q: self.target_network(next_states).max(1)[0] in DQNAgent (which
\* DuelingDQNAgent inherits); in DoubleDQNAgent the target network's output
\* gathered at self.q_network(next_states).max(1)[1].
NextQ(k, online_q, target_q) ==
    IF k = "DoubleDQNAgent" THEN target_q[ArgMax(online_q)]
    ELSE MaxOf(target_q)

\* target_q = rewards + (1 - dones) * self.gamma * next_q
TargetQ(t, gamma, next_q) ==
    FracPlus(t.reward,
             FracTimes(FracTimes(NotDone(t.done), gamma), << next_q, 1 >>))

TargetInit ==
    /\ buffer = << >>
    /\ pushed = << >>
    /\ files = << >>
    /\ clock = 0
    /\ ledger = << >>
    /\ kind \in ValueBased
    /\ agent \in TargetAgents
    /\ restored = << >>
    /\ ret = [op |-> "init"]
    /\ calls = NoCalls

\* The target of the sampled transition; mask_online and mask_target are the
\* dropout draws of the two forward passes on the next state.
ComputeTarget(mask_online, mask_target) ==
    LET online_q == QValues(kind, agent.q_network, agent.sample.next_state,
                            mask_online)
        target_q == QValues(kind, agent.target_network,
                            agent.sample.next_state, mask_target)
    IN  /\ ret' = [ op       |-> "target_q",
                    online_q |-> online_q,
                    target_q |-> target_q,
                    value    |-> TargetQ(agent.sample, agent.gamma,
                                         NextQ(kind, online_q, target_q)) ]
        /\ UNCHANGED << kind, agent, restored, storeVars >>

TargetNext ==
    \E mask_online \in DropoutMasks, mask_target \in DropoutMasks :
        ComputeTarget(mask_online, mask_target)

SpecTarget == TargetInit /\ [][TargetNext]_vars

(***************************************************************************)
(* The discounted-return pass of PolicyGradientAgent.train_step and         *)
(* ActorCriticAgent.train_step, before the returns are standardized.       *)
(***************************************************************************)

\* The longest episode the return pass is applied to.
EpisodeLen == 3

\* An agent holding the rewards of an episode.
EpisodeAgents ==
    [ gamma : Gammas,
      rewards : UNION { [1 .. n -> Rewards] : n \in 1 .. EpisodeLen } ]

\* The loop `for reward in reversed(self.rewards)`: t rewards are still to
\* be read, G is the running return, returns the list built so far.
RECURSIVE ReturnsLoopAppending(_, _, _, _, _)
ReturnsLoopAppending(rewards, gamma, t, G, returns) ==
    IF t = 0 THEN returns
    ELSE LET next == FracPlus(rewards[t], FracTimes(gamma, G))
         IN  ReturnsLoopAppending(rewards, gamma, t - 1, next,
                                  returns \o << next >>)

RECURSIVE ReturnsLoop(_, _, _, _, _)
ReturnsLoop(rewards, gamma, t, G, returns) ==
    IF t = 0 THEN returns
    ELSE LET next == FracPlus(rewards[t], FracTimes(gamma, G))
         IN  ReturnsLoop(rewards, gamma, t - 1, next, << next >> \o returns)

\* A pass that appends each return instead of inserting it at the front.
DiscountedReturnsAppended(rewards, gamma) ==
    ReturnsLoopAppending(rewards, gamma, Len(rewards), Zero, << >>)

\* returns = []; G = 0; for reward in reversed(self.rewards):
\*     G = reward + self.gamma * G; returns.insert(0, G)
DiscountedReturns(rewards, gamma) ==
    ReturnsLoop(rewards, gamma, Len(rewards), Zero, << >>)

EpisodeInit ==
    /\ buffer = << >>
    /\ pushed = << >>
    /\ files = << >>
    /\ clock = 0
    /\ ledger = << >>
    /\ kind \in { "PolicyGradientAgent", "ActorCriticAgent" }
    /\ agent \in EpisodeAgents
    /\ restored = << >>
    /\ ret = [op |-> "init"]
    /\ calls = NoCalls

ComputeReturns ==
    /\ ret' = [op |-> "returns",
               value |-> DiscountedReturns(agent.rewards, agent.gamma)]
    /\ UNCHANGED << kind, agent, restored, storeVars >>

EpisodeNext == ComputeReturns

SpecEpisode == EpisodeInit /\ [][EpisodeNext]_vars

(***************************************************************************)
(* The constructors of the value-based agents, with their hyperparameters.  *)
(***************************************************************************)

\* The learning rates a caller may ask for: the default 0.001, and 0.01.
LearningRates == { << 1, 1000 >>, << 1, 100 >> }

\* The hyperparameters a value-based agent is constructed with.
Hyperparameters ==
    { [ learning_rate |-> lr, gamma |-> g, epsilon |-> h[1],
        epsilon_min |-> h[2], epsilon_decay |-> h[3],
        buffer_size |-> Capacity, batch_size |-> BatchSize,
        target_update_freq |-> TargetUpdateFreq ] :
        lr \in LearningRates, g \in Gammas, h \in Exploration }

\* DQNAgent.__init__: theta is the random initialisation of the Q-network.
ConstructedDQN(h, theta) ==
    [ gamma              |-> h.gamma,
      epsilon            |-> h.epsilon,
      epsilon_min        |-> h.epsilon_min,
      epsilon_decay      |-> h.epsilon_decay,
      batch_size         |-> h.batch_size,
      target_update_freq |-> h.target_update_freq,
      update_counter     |-> 0,
      q_network          |-> [class |-> "QNetwork", parameters |-> theta],
      target_network     |-> [class |-> "QNetwork", parameters |-> theta],
      optimizer          |-> [lr |-> h.learning_rate],
      memory             |-> [maxlen |-> h.buffer_size, buffer |-> << >>] ]

\* DuelingDQNAgent.__init__: super().__init__, then the networks are
\* replaced by dueling ones (a fresh initialisation, copied into the target)
\* and the optimizer by Adam(lr=0.001).
ConstructedDueling(h, theta, dueling_theta) ==
    [ ConstructedDQN(h, theta) EXCEPT
        !.q_network = [class |-> "DuelingQNetwork", parameters |-> dueling_theta],
        !.target_network =
            [class |-> "DuelingQNetwork", parameters |-> dueling_theta],
        !.optimizer = [lr |-> << 1, 1000 >>] ]

CtorInit ==
    /\ buffer = << >>
    /\ pushed = << >>
    /\ files = << >>
    /\ clock = 0
    /\ ledger = << >>
    /\ kind \in ValueBased
    /\ agent = << >>
    /\ restored = << >>
    /\ ret = [op |-> "init"]
    /\ calls = NoCalls

\* The agent class `kind` is constructed with hyperparameters h.
Construct(h, theta, dueling_theta) ==
    /\ agent = << >>
    /\ agent' = IF kind = "DuelingDQNAgent"
                THEN ConstructedDueling(h, theta, dueling_theta)
                ELSE ConstructedDQN(h, theta)
    /\ ret' = [op |-> "construct", hyperparameters |-> h]
    /\ UNCHANGED << kind, restored, storeVars >>

CtorNext ==
    \E h \in Hyperparameters, theta \in Thetas, dueling_theta \in Thetas :
        Construct(h, theta, dueling_theta)

SpecCtor == CtorInit /\ [][CtorNext]_vars

(***************************************************************************)
(* The inference and delete_model endpoints (main.py).  A handler body is  *)
(* a try block followed by `except Exception`; an outcome is the value     *)
(* returned or the exception raised.                                       *)
(***************************************************************************)

\* The algorithm names a request may carry; the last one is not known.
Algorithms == { "dqn", "policy_gradient", "actor_critic", "ppo", "sarsa" }

KnownAlgorithms == { "dqn", "policy_gradient", "actor_critic", "ppo" }

\* HTTPException(status_code, detail): a subclass of Exception.
HTTPException(status_code, detail) ==
    [ class |-> "HTTPException", bases |-> { "HTTPException", "Exception" },
      status_code |-> status_code, detail |-> detail ]

Returned(value, built) == [raised |-> None, value |-> Some(value), agent |-> built]

Raised(e, built) == [raised |-> Some(e), value |-> None, agent |-> built]

\* The try block of inference(): `runs` tells whether load_state_dict and
\* run_inference go through without an exception.
InferenceTry(fs, modelPath, algorithm, runs) ==
    LET checkpoint == LoadResult(fs, modelPath)
    IN  IF checkpoint = None
        THEN Raised(HTTPException(404, "Model not found"), FALSE)
        ELSE IF algorithm \notin KnownAlgorithms
        THEN Raised(HTTPException(400, "Unknown algorithm"), FALSE)
        ELSE IF ~ runs
        THEN Raised([class |-> "RuntimeError",
                     bases |-> { "RuntimeError", "Exception" }], TRUE)
        ELSE Returned("result", TRUE)

\* The try block of delete_model().
DeleteModelTry(fs, model_name) ==
    IF DeleteResult(fs, model_name)
    THEN Returned("success", FALSE)
    ELSE Raised(HTTPException(404, "Model not found"), FALSE)

\* except Exception as e: raise HTTPException(status_code=500, detail=str(e))
ExceptException(outcome) ==
    IF outcome.raised # None /\ "Exception" \in outcome.raised[1].bases
    THEN Raised(HTTPException(500, [str |-> outcome.raised[1]]), outcome.agent)
    ELSE outcome

\* The status the framework answers an outcome with.
StatusOf(outcome) ==
    IF outcome.raised = None THEN 200
    ELSE IF outcome.raised[1].class = "HTTPException"
    THEN outcome.raised[1].status_code
    ELSE 500

\* POST /api/rl/inference
Inference(modelPath, algorithm, runs) ==
    LET outcome == ExceptException(InferenceTry(files, modelPath, algorithm, runs))
    IN  /\ ret' = [ op |-> "inference", modelPath |-> modelPath,
                    status |-> StatusOf(outcome), agent |-> outcome.agent ]
        /\ UNCHANGED << buffer, pushed, files, clock, ledger, calls, agentVars >>

\* DELETE /api/models/{model_name}
DeleteModel(model_name) ==
    LET outcome == ExceptException(DeleteModelTry(files, model_name))
    IN  /\ files' = DeleteFiles(files, model_name)
        /\ ledger' = [ledger EXCEPT ![model_name] =
                        IF DeleteResult(files, model_name)
                        THEN [state |-> "deleted"]
                        ELSE @]
        /\ ret' = [ op |-> "delete_model", model_name |-> model_name,
                    deleted |-> DeleteResult(files, model_name),
                    status |-> StatusOf(outcome) ]
        /\ UNCHANGED << buffer, pushed, clock, calls, agentVars >>

ServiceNext ==
    \/ \E n \in Names, w \in Snapshots : Save(n, w, None, 1)
    \/ \E a \in LoadArgs, algorithm \in Algorithms, runs \in BOOLEAN :
           Inference(a, algorithm, runs)
    \/ \E n \in Names : DeleteModel(n)

SpecService == CkptInit /\ [][ServiceNext]_vars

(***************************************************************************)
(* build_circuit_graph (models/gnn.py): the edge list.  An identifier is   *)
(* the sequence of the pieces that "_" separates in it; a pin identifier   *)
(* is its cell's identifier followed by the pin index.                     *)
(***************************************************************************)

\* The cells of the design: identifier and number of pins.
GraphCells ==
    << [id |-> << "a" >>, pins |-> { 0, 1 }],
       [id |-> << "b" >>, pins |-> { 0 }],
       [id |-> << "c", "1" >>, pins |-> { 0 }] >>

\* The pins of the design, each on the cell at position `cell` of the list.
GraphPins ==
    { [cell |-> c, pin |-> k] : c \in { 1, 2, 3 }, k \in { 0, 1 } }
        \ { [cell |-> c, pin |-> 1] : c \in { 2, 3 } }

\* The identifier of a pin: <cellId>_<pinIndex>.
PinId(cells, p) == cells[p.cell].id \o << p.pin >>

\* The nets of a design: up to three pins and a weight.
GraphNets ==
    [ pins : UNION { [1 .. n -> GraphPins] : n \in { 0, 1, 2, 3 } },
      weight : { 1, 2 } ]

\* The net lists of a design: no net, one net, or two.
GraphDesigns ==
    UNION { [1 .. n -> GraphNets] : n \in { 0, 1, 2 } }

\* pin_id.split('_')[0]
SplitFirst(pin_id) == << pin_id[1] >>

\* for i, cell in enumerate(cells): if cell['id'] == cell_id: ... break
\* The 0-based index of the first cell with that identifier, if any.
FindCell(cells, cell_id) ==
    LET hits == { i \in 1 .. Len(cells) : cells[i].id = cell_id }
    IN  IF hits = {} THEN None
        ELSE Some((CHOOSE i \in hits : \A j \in hits : i <= j) - 1)

\* cell_ids of a net: the indices found for its pins, in pin order.
RECURSIVE CellIds(_, _, _)
CellIds(cells, pins, n) ==
    IF n = 0 THEN << >>
    ELSE CellIds(cells, pins, n - 1)
             \o FindCell(cells, SplitFirst(PinId(cells, pins[n])))

\* The inner loop `for j in range(i + 1, len(cell_ids))`, from j on.
RECURSIVE CliqueRow(_, _, _, _)
CliqueRow(cell_ids, i, j, weight) ==
    IF j > Len(cell_ids) THEN << >>
    ELSE << [edge |-> << cell_ids[i], cell_ids[j] >>, weight |-> weight],
            [edge |-> << cell_ids[j], cell_ids[i] >>, weight |-> weight] >>
             \o CliqueRow(cell_ids, i, j + 1, weight)

\* The outer loop `for i in range(len(cell_ids))`, from i on.
RECURSIVE Clique(_, _, _)
Clique(cell_ids, i, weight) ==
    IF i > Len(cell_ids) THEN << >>
    ELSE CliqueRow(cell_ids, i, i + 1, weight) \o Clique(cell_ids, i + 1, weight)

\* The loop `for net in nets`: the edges of the first n nets.
RECURSIVE Edges(_, _, _)
Edges(cells, nets, n) ==
    IF n = 0 THEN << >>
    ELSE Edges(cells, nets, n - 1)
             \o Clique(CellIds(cells, nets[n].pins, Len(nets[n].pins)), 1,
                       nets[n].weight)

\* build_circuit_graph: edge_index (before the transpose) and edge_weights.
BuildCircuitGraph(cells, nets) ==
    LET edges == Edges(cells, nets, Len(nets))
    IN  [ edge_index   |-> [k \in 1 .. Len(edges) |-> edges[k].edge],
          edge_weights |-> [k \in 1 .. Len(edges) |-> edges[k].weight] ]

GraphInit ==
    /\ buffer = << >>
    /\ pushed = << >>
    /\ files = << >>
    /\ clock = 0
    /\ ledger = << >>
    /\ kind = "none"
    /\ agent \in [ cells : { GraphCells }, nets : GraphDesigns ]
    /\ restored = << >>
    /\ ret = [op |-> "init"]
    /\ calls = NoCalls

BuildGraph ==
    /\ ret' = [op |-> "build_circuit_graph",
               value |-> BuildCircuitGraph(agent.cells, agent.nets)]
    /\ UNCHANGED << kind, agent, restored, storeVars >>

GraphNext == BuildGraph

SpecGraph == GraphInit /\ [][GraphNext]_vars

(***************************************************************************)
(* Properties of the update rules                                          *)
(***************************************************************************)

\* C21: in DQNAgent and DoubleDQNAgent a completed train_step increments
\* update_counter by exactly 1; when the new counter is a multiple of
\* target_update_freq the target network equals the online network on
\* return; in every other completed train_step, and in every no-op
\* train_step, the target network is unchanged (and a no-op leaves the
\* counter alone).
C21_HardSyncCadence ==
    [][ ( /\ kind \in { "DQNAgent", "DoubleDQNAgent" }
          /\ ret'.op = "train_step" )
        => IF ret'.outcome = "update"
           THEN /\ agent'.update_counter = agent.update_counter + 1
                /\ IF agent'.update_counter % agent.target_update_freq = 0
                   THEN agent'.target_network = agent'.q_network
                   ELSE agent'.target_network = agent.target_network
           ELSE /\ agent'.update_counter = agent.update_counter
                /\ agent'.target_network = agent.target_network ]_vars

\* C21 witness: a DoubleDQNAgent has completed the update that brings the
\* counter to target_update_freq, after which the target network is the
\* online network.
C21_Witness ==
    /\ kind = "DoubleDQNAgent"
    /\ ret.op = "train_step"
    /\ ret.outcome = "update"
    /\ agent.update_counter = agent.target_update_freq
    /\ agent.target_network = agent.q_network

\* C22: the target of a sampled transition is r + (1 - done) * gamma * nextQ,
\* nextQ being the largest of the target network's Q-values on the next
\* state in DQNAgent and, in DoubleDQNAgent, the target network's Q-value of
\* the action that is the arg-max of the online network's Q-values; for a
\* terminal transition the target is r in both.
C22_BootstrapTarget ==
    ( ret.op = "target_q" /\ kind \in { "DQNAgent", "DoubleDQNAgent" } )
    => LET r == agent.sample.reward
           best == CHOOSE a \in Actions :
                       /\ \A b \in Actions : ret.online_q[b] <= ret.online_q[a]
                       /\ \A b \in Actions :
                             ret.online_q[b] = ret.online_q[a] => a <= b
           largest == CHOOSE x \in { ret.target_q[a] : a \in Actions } :
                          \A a \in Actions : ret.target_q[a] <= x
           nextQ == IF kind = "DQNAgent" THEN largest ELSE ret.target_q[best]
       IN  IF agent.sample.done THEN FracEq(ret.value, r)
           ELSE FracEq(ret.value,
                       FracPlus(r, FracTimes(agent.gamma, << nextQ, 1 >>)))

\* C22 witness: a DoubleDQNAgent has computed the target of a non-terminal
\* transition on whose next state the online arg-max is not where the target
\* network's maximum is.
C22_Witness ==
    /\ ret.op = "target_q"
    /\ kind = "DoubleDQNAgent"
    /\ ~ agent.sample.done
    /\ agent.gamma = << 1, 2 >>
    /\ ret.target_q[ArgMax(ret.online_q)] < MaxOf(ret.target_q)
    /\ FracEq(ret.value,
              FracPlus(agent.sample.reward,
                       << ret.target_q[ArgMax(ret.online_q)], 2 >>))

\* C23: a select_action call of a value-based agent that does not explore
\* returns an available action whose online Q-value no available action
\* exceeds, whatever the Q-values of the unavailable actions are; and a call
\* with training = false never explores, whatever epsilon is.
C23_GreedyAmongAvailable ==
    ( kind \in ValueBased /\ ret.op = "select_action" )
    => /\ ~ ret.explored
            => /\ ret.value # None
               /\ ret.value[1] \in ret.available
               /\ \A b \in ret.available : ret.q[b] <= ret.q[ret.value[1]]
       /\ ~ ret.training => ~ ret.explored

\* C23 witness: a training call of an agent with epsilon < 1 has not explored
\* and has returned the best available action while an unavailable action
\* has a strictly larger Q-value.
C23_Witness ==
    /\ kind \in ValueBased
    /\ ret.op = "select_action"
    /\ ret.training
    /\ ~ ret.explored
    /\ FracLess(agent.epsilon, << 1, 1 >>)
    /\ \E u \in Actions \ ret.available : ret.q[ret.value[1]] < ret.q[u]
    /\ \A b \in ret.available : ret.q[b] <= ret.q[ret.value[1]]

\* C24: compute_gae yields one advantage and one return per stored step,
\* with A_t = delta_t + gamma * lambda * (1 - done_t) * A_{t+1} (A past the
\* end being 0), delta_t the TD residual with the value past the end 0, and
\* return_t = A_t + V_t; at a step with done_t true A_t is r_t - V_t, which
\* reads nothing of any later step.
C24_GaeRecurrence ==
    ret.op = "compute_gae"
    => LET n == Len(agent.rewards)
           A == ret.value.advantages
           After(t) == IF t = n THEN Zero ELSE A[t + 1]
       IN  /\ Len(A) = n
           /\ Len(ret.value.returns) = n
           /\ \A t \in 1 .. n :
                 /\ FracEq(A[t],
                           IF agent.dones[t] THEN TdResidual(agent, t)
                           ELSE FracPlus(TdResidual(agent, t),
                                         FracTimes(FracTimes(agent.gamma,
                                                             agent.gae_lambda),
                                                   After(t))))
                 /\ agent.dones[t]
                       => FracEq(A[t], FracMinus(agent.rewards[t],
                                                 agent.values[t]))
                 /\ FracEq(ret.value.returns[t], FracPlus(A[t], agent.values[t]))

\* C24 witness: compute_gae has run with gamma = lambda = 1 on a two-step
\* rollout without a done step, so that the first advantage, 2, contains the
\* second step's residual, -1, and the second return is 1.
C24_Witness ==
    /\ ret.op = "compute_gae"
    /\ agent.gamma = One
    /\ agent.gae_lambda = One
    /\ agent.rewards = << One, One >>
    /\ agent.values = << Zero, << 2, 1 >> >>
    /\ agent.dones = << FALSE, FALSE >>
    /\ FracEq(ret.value.advantages[1], << 2, 1 >>)
    /\ FracEq(ret.value.advantages[2], << -1, 1 >>)
    /\ FracEq(ret.value.returns[2], One)

\* C25: for rewards r_0 .. r_{n-1} the return pass of PolicyGradientAgent
\* and ActorCriticAgent yields n returns in the order of the rewards, with
\* G_t = r_t + gamma * G_{t+1} and G_n = 0, so that the last return is the
\* last reward.
C25_MonteCarloReturns ==
    ret.op = "returns"
    => LET n == Len(agent.rewards)
           G == ret.value
       IN  /\ Len(G) = n
           /\ FracEq(G[n], agent.rewards[n])
           /\ \A t \in 1 .. n - 1 :
                 FracEq(G[t], FracPlus(agent.rewards[t],
                                       FracTimes(agent.gamma, G[t + 1])))

\* C25 witness: the returns of the rewards 1, -1, -1 with gamma = 1/2 have
\* been computed: 1/4, -3/2, -1.
C25_Witness ==
    /\ ret.op = "returns"
    /\ kind = "ActorCriticAgent"
    /\ agent.gamma = << 1, 2 >>
    /\ agent.rewards = << One, << -1, 1 >>, << -1, 1 >> >>
    /\ FracEq(ret.value[1], << 1, 4 >>)
    /\ FracEq(ret.value[2], << -3, 2 >>)
    /\ FracEq(ret.value[3], << -1, 1 >>)

\* C26: whenever train_step of an on-policy agent goes past its empty-buffer
\* check, the buffers select_action fills have the same nonzero length as
\* the buffers store_reward fills.
C26_BuffersAligned ==
    [][ ( /\ kind \in OnPolicy
          /\ ret'.op = "train_step"
          /\ HasExperience(kind, agent) )
        => LET n == Len(agent.rewards)
           IN  /\ n > 0
               /\ Len(IF kind = "PPOAgent" THEN agent.log_probs
                      ELSE agent.saved_log_probs) = n
               /\ kind = "ActorCriticAgent"
                     => Len(agent.values) = n /\ Len(agent.entropies) = n
               /\ kind = "PPOAgent"
                     => /\ Len(agent.states) = n
                        /\ Len(agent.actions) = n
                        /\ Len(agent.values) = n
                        /\ Len(agent.dones) = n ]_vars

\* C27: train_step of an on-policy agent on a nonempty episode or rollout,
\* one of exactly one step included, standardizes by a defined standard
\* deviation and returns defined loss metrics.
C27_StandardizationDefined ==
    [][ ( /\ kind \in OnPolicy
          /\ ret'.op = "train_step"
          /\ Len(agent.rewards) > 0
          /\ RecordedSteps(kind, agent) = Len(agent.rewards) )
        => /\ ret'.outcome = "update"
           /\ ret'.value = Some(Metric(kind, 1)) ]_vars

\* C28: a DuelingDQNAgent constructed with given hyperparameters has the
\* gamma, epsilon schedule, batch size, target-sync cadence and optimizer
\* learning rate of a DQNAgent constructed with them, and its target network
\* starts equal to its online network.
C28_DuelingStructuralOnly ==
    ( ret.op = "construct" /\ kind = "DuelingDQNAgent" )
    => LET base == ConstructedDQN(ret.hyperparameters, 0)
       IN  /\ agent.gamma = base.gamma
           /\ agent.epsilon = base.epsilon
           /\ agent.epsilon_min = base.epsilon_min
           /\ agent.epsilon_decay = base.epsilon_decay
           /\ agent.batch_size = base.batch_size
           /\ agent.target_update_freq = base.target_update_freq
           /\ agent.update_counter = base.update_counter
           /\ agent.target_network = agent.q_network
           /\ agent.optimizer.lr = base.optimizer.lr

\* C29: an inference request whose model path checkpoint_manager.load finds
\* nothing for ends with status 404 and builds no agent; a delete_model
\* request for which checkpoint_manager.delete returns false ends with
\* status 404.
C29_MissingModelIsNotFound ==
    /\ ( ret.op = "inference" /\ LoadResult(files, ret.modelPath) = None )
           => ( ret.status = 404 /\ ~ ret.agent )
    /\ ( ret.op = "delete_model" /\ ~ ret.deleted ) => ret.status = 404

\* C30: the edge list of build_circuit_graph holds, for every net, the
\* directed edges (i, j) and (j, i) with the net's weight for every two
\* distinct cells i, j the net connects, and no other edge (no self-loop, no
\* edge to a cell the net does not connect); there are as many edge weights
\* as edges; a design whose nets connect fewer than two cells each has an
\* empty edge list.
C30_PairwiseClique ==
    ret.op = "build_circuit_graph"
    => LET index == ret.value.edge_index
           weights == ret.value.edge_weights
           connected(net) ==
               { net.pins[k].cell - 1 : k \in 1 .. Len(net.pins) }
           expected ==
               UNION { { << i, j, agent.nets[n].weight >> :
                           i \in connected(agent.nets[n]),
                           j \in connected(agent.nets[n]) }
                       : n \in 1 .. Len(agent.nets) }
               \ { << i, i, w >> : i \in 0 .. 2, w \in { 1, 2 } }
       IN  /\ Len(index) = Len(weights)
           /\ { << index[k][1], index[k][2], weights[k] >> :
                   k \in 1 .. Len(index) } = expected
           /\ expected = {} => index = << >>

====
